---- MODULE Spec2Model ----
(***************************************************************************)
(* TailorTalk: a FastAPI facade (main.py) served by one uvicorn process,   *)
(* the calendar gateway behind it (calendar_utils.py), the two tools that  *)
(* reach the facade over HTTP (tools.py) and the planner that drives them  *)
(* (agent.py), and the chat shell (streamlit_app.py).  The oracle (LLM),   *)
(* the calendar provider and the network are the environment: their        *)
(* answers are nondeterministic choices.                                   *)
(*                                                                         *)
(* Time is counted in half hours; a timestamp string is a record           *)
(* [kind, wall, off]: kind "naive" (wall clock only), "aware" (wall clock  *)
(* and UTC offset), "bad" (not ISO) or "none" (not a string at all).       *)
(***************************************************************************)
EXTENDS Integers, Sequences, FiniteSets, TLC

VARIABLES
    env,               \* the process environment (.env), fixed at start
    proc,              \* where the server process is in its start-up
    CALENDAR_SERVICE,  \* calendar_utils.CALENDAR_SERVICE
    running,           \* the request whose handler holds the event loop, 0 if none
    nreq,              \* number of HTTP requests that reached the server's socket
    req,               \* the HTTP requests, by arrival number
    calendar,          \* the provider's calendar: the events inserted, in order
    returned,          \* the event identifiers the facade has answered with
    agent,             \* the run of invoke_agent inside each /chat handler
    tool,              \* the tool call of each host (the script, a planner)
    messages           \* streamlit_app.py: st.session_state.messages

vars == <<env, proc, CALENDAR_SERVICE, running, nreq, req, calendar, returned, agent, tool, messages>>

----------------------------------------------------------------------------
\* Bounds of the model.

\* HTTP requests that arrive at the server in one run.
MaxReq == 2

\* Inputs typed into the chat shell in one session.
MaxTurns == 2

\* Program constants.

\* AgentExecutor(agent=agent, tools=ALL_TOOLS, verbose=True) leaves
\* max_iterations at the library's default of 15.
MaxIterations == 15

Req == 1..MaxReq

\* Callers of the tool functions: 0 is tools.py run as a script, r >= 1 is
\* the planner inside the /chat handler of request r.
Script == 0
Hosts == {Script} \cup Req

----------------------------------------------------------------------------
\* Timestamps and zones.


Naive(w) == [kind |-> "naive", wall |-> w, off |-> 0]
Aware(w, o) == [kind |-> "aware", wall |-> w, off |-> o]
BadTime == [kind |-> "bad", wall |-> 0, off |-> 0]
NotAString == [kind |-> "none", wall |-> 0, off |-> 0]

\* The (start, end) pairs an HTTP client sends (pydantic: two strings): a
\* window, a reversed one, an empty one, and one with each end unparseable.
ClientWindows ==
    {<<Naive(18), Naive(20)>>, <<Naive(20), Naive(18)>>, <<Naive(18), Naive(18)>>,
     <<BadTime, Naive(20)>>, <<Naive(18), BadTime>>}

\* the pairs a caller passes to a tool function, which may not be strings
ToolWindows ==
    {<<Naive(18), Naive(20)>>, <<Naive(20), Naive(18)>>,
     <<BadTime, Naive(20)>>, <<Naive(18), BadTime>>,
     <<NotAString, Naive(20)>>, <<Naive(18), NotAString>>}

ValidZones == {"UTC", "Asia/Kolkata"}

\* the zones a request names
Zones == {"Asia/Kolkata", "Mars/Phobos"}

ZoneOffset(tz) == IF tz = "Asia/Kolkata" THEN 11 ELSE 0

\* datetime.fromisoformat(s): the exception it raises, or "ok"
FromIsoFormat(s) ==
    CASE s.kind = "bad" -> "ValueError"
      [] s.kind = "none" -> "TypeError"
      [] OTHER -> "ok"

\* the absolute instant of a parsed timestamp; a naive one is read, as
\* datetime.astimezone does, in the local zone of the process
Instant(s, localTz) ==
    IF s.kind = "aware" THEN s.wall - s.off ELSE s.wall - ZoneOffset(localTz)

\* datetime.fromisoformat(s).astimezone(pytz.timezone(tz)).isoformat()
AsTimezone(s, tz, localTz) ==
    Aware(Instant(s, localTz) + ZoneOffset(tz), ZoneOffset(tz))

----------------------------------------------------------------------------
\* Errors and results.

\* An error text: its fixed part, the status it quotes (0 if none) and the
\* exception it formats.
Err(t, s, c) == [type |-> t, status |-> s, cause |-> c]
NoError == Err("none", 0, "none")

----------------------------------------------------------------------------
\* The environment the process starts in.

Envs ==
    [apiKey : BOOLEAN,                         \* GOOGLE_API_KEY is set
     keyPath : {"absent", "missing", "present"}, \* GOOGLE_SERVICE_ACCOUNT_KEY_PATH
     calendarId : BOOLEAN,                     \* GOOGLE_CALENDAR_ID is set
     localTz : ValidZones]                     \* the zone of the server's clock

\* Faulty variant: the check without os.path.exists: a path that names no file passes
ServiceAccountFileSet == env.keyPath # "absent"

\* calendar_utils.py: `if not SERVICE_ACCOUNT_FILE or not os.path.exists(...)`
\* lets the import go on
ServiceAccountFileOk == env.keyPath = "present"

\* agent.py: `if not GOOGLE_API_KEY: raise ValueError`
ApiKeyOk == env.apiKey

\* main.py: `if not GOOGLE_CALENDAR_ID: raise ValueError`
CalendarIdOk == env.calendarId

\* What get_calendar_service() can end with: a service, FileNotFoundError
\* (the key file vanished after the check above), or any other exception
\* of from_service_account_file/build (a malformed key, a permission).
InitOutcomes == {"ok", "FileNotFoundError", "ValueError"}

\* calendar_utils.py: `except FileNotFoundError` around get_calendar_service()
InitFaultCaught(e) == e = "FileNotFoundError"

\* Faulty variant: the handlers without their 503 guard
ServiceAssumedInitialized == TRUE

\* main.py: `if not CALENDAR_SERVICE` is false
ServiceInitialized == CALENDAR_SERVICE = "service"

----------------------------------------------------------------------------
\* Chat histories: a list of dicts, each a function from some of the keys
\* "role", "content" to strings.  The ones drawn: an empty one, one with
\* the two roles the planner knows and one it does not, one with an entry
\* without a role, one with an entry without a content.

Histories ==
    {<<>>,
     <<[role |-> "user", content |-> "hi"], [role |-> "system", content |-> "be brief"],
       [role |-> "assistant", content |-> "hello"]>>,
     <<[role |-> "user", content |-> "hi"], [content |-> "hello"]>>,
     <<[role |-> "assistant"]>>}

Messages == {"m1", "m2"}

HumanMessage(c) == [type |-> "human", content |-> c]
AIMessage(c) == [type |-> "ai", content |-> c]

\* agent.py, the loop over chat_history: the converted list, or the
\* KeyError of the first entry that lacks a key the loop reads.
RECURSIVE ConvertFrom(_, _, _)
ConvertFrom(h, i, acc) ==
    IF i > Len(h) THEN [ok |-> TRUE, lc |-> acc]
    ELSE LET msg == h[i]
         IN  IF "role" \notin DOMAIN msg THEN [ok |-> FALSE, lc |-> <<>>]
             ELSE IF msg.role \in {"user", "assistant"} /\ "content" \notin DOMAIN msg
                  THEN [ok |-> FALSE, lc |-> <<>>]
             ELSE IF msg.role = "user"
                  THEN ConvertFrom(h, i + 1, Append(acc, HumanMessage(msg.content)))
             ELSE IF msg.role = "assistant"
                  THEN ConvertFrom(h, i + 1, Append(acc, AIMessage(msg.content)))
             ELSE ConvertFrom(h, i + 1, acc)

ConvertHistory(h) == ConvertFrom(h, 1, <<>>)


----------------------------------------------------------------------------
\* Records of the state.

NoArgs == [start |-> BadTime, end |-> BadTime, timezone |-> "none",
           user_message |-> "none", chat_history |-> <<>>]

CalendarArgs(s, e, tz) == [NoArgs EXCEPT !.start = s, !.end = e, !.timezone = tz]
ChatArgs(m, h) == [NoArgs EXCEPT !.user_message = m, !.chat_history = h]

\* what the gateway sends to the provider (kind "none": nothing)
NoCall == [kind |-> "none", calendarId |-> "none", start |-> BadTime,
           end |-> BadTime, timeZone |-> "none"]

\* the gateway's result dict
GatewayResult(slots, id, link, e) ==
    [busy_slots |-> slots, event_id |-> id, html_link |-> link, error |-> e]

NoResult == GatewayResult(<<>>, 0, 0, NoError)

\* an HTTP response body (the fields a response does not have are empty)
NoBody == [detail |-> NoError, busy_slots |-> <<>>, event_id |-> 0,
           html_link |-> 0, message |-> "none", response |-> "none"]

NoResponse == [status |-> 0, body |-> NoBody]

\* A request from its arrival to its response.  The body of a client's
\* request is drawn when the handler reads it; a tool's is what it posted.
NewRequest(k, byTool, h, a) ==
    [kind |-> k,          \* "check", "create" or "chat"
     byTool |-> byTool,   \* posted by a tool function (else by an HTTP client)
     host |-> h,          \* the host of that tool call
     st |-> "pending",    \* "pending", "provider", "agent", "done", "closed"
     args |-> a,          \* the JSON body
     pcall |-> NoCall,    \* the provider call made for it
     pcalls |-> 0,        \* how many provider calls were made for it
     result |-> NoResult, \* what the gateway returned to the handler
     gateway |-> FALSE,   \* the handler called the gateway
     responses |-> 0,     \* how many responses the handler produced
     status |-> 0,
     body |-> NoBody]

NoRequest == [NewRequest("none", FALSE, 0, NoArgs) EXCEPT !.st = "none"]

\* a request whose response was sent: nothing of it is kept
Closed == [NoRequest EXCEPT !.st = "closed"]

IdleAgent == [st |-> "idle",       \* "idle", "oracle", "tool", "returned", "raised"
              input |-> "none",    \* the user message
              lc |-> <<>>,         \* lc_chat_history
              iter |-> 0,          \* AgentExecutor's iterations
              oracleCalls |-> 0,   \* oracle turns of this run
              observed |-> "none", \* shape of the last tool result it was given
              reply |-> "none"]

\* a tool's return value: shape "payload" (the facade's JSON), "error"
\* ({"error": text}) or "raised" (an exception left the function)
NoToolResult == [shape |-> "none", error |-> NoError, payload |-> NoBody]
ErrorResult(e) == [shape |-> "error", error |-> e, payload |-> NoBody]

IdleTool == [st |-> "idle",       \* "idle", "http", "responded", "returned"
             name |-> "none",
             calls |-> 0,         \* tool calls the host has made
             parseable |-> FALSE, \* both time arguments are ISO timestamps
             posts |-> 0,         \* requests.post calls of this tool call
             wait |-> 0,          \* the request it waits for
             resp |-> NoResponse, \* the response it got
             result |-> NoToolResult]

\* A turn of the shell's history; `quoted` is the text a template quotes.
Turn(role, text, quoted) == [role |-> role, content |-> [text |-> text, quoted |-> quoted]]

\* streamlit_app.py: the assistant turn the session starts with
Greeting == Turn("assistant", "How can I help you book an appointment today?", "none")

Init ==
    /\ env \in Envs
    /\ proc = "import_calendar_utils"
    /\ CALENDAR_SERVICE = "unset"
    /\ running = 0
    /\ nreq = 0
    /\ req = [r \in Req |-> NoRequest]
    /\ calendar = <<>>
    /\ returned = <<>>
    /\ agent = [r \in Req |-> IdleAgent]
    /\ tool = [h \in Hosts |-> IdleTool]
    /\ messages = <<Greeting>>

----------------------------------------------------------------------------
\* Start-up of the server process: `python main.py`.  An exception in a
\* module body ends the process: proc becomes "failed_..." and stays so.

\* main.py line 12 imports calendar_utils, whose module body checks the key
\* file.
ImportCalendarUtils ==
    /\ proc = "import_calendar_utils"
    /\ proc' = IF ServiceAccountFileOk THEN "get_calendar_service" ELSE "failed_key_file"
    /\ UNCHANGED <<messages, env, CALENDAR_SERVICE, running, nreq, req, calendar, returned, agent, tool>>

\* calendar_utils.py: CALENDAR_SERVICE = get_calendar_service() under
\* `except FileNotFoundError`; any other exception ends the import.
InitCalendarService ==
    /\ proc = "get_calendar_service"
    /\ \E e \in InitOutcomes :
        IF e = "ok"
        THEN CALENDAR_SERVICE' = "service" /\ proc' = "import_agent"
        ELSE IF InitFaultCaught(e)
        THEN CALENDAR_SERVICE' = "None" /\ proc' = "import_agent"
        ELSE CALENDAR_SERVICE' = CALENDAR_SERVICE /\ proc' = "failed_service_init"
    /\ UNCHANGED <<messages, env, running, nreq, req, calendar, returned, agent, tool>>

\* main.py line 15 imports agent, whose module body checks the API key.
ImportAgent ==
    /\ proc = "import_agent"
    /\ proc' = IF ApiKeyOk THEN "main_config" ELSE "failed_api_key"
    /\ UNCHANGED <<messages, env, CALENDAR_SERVICE, running, nreq, req, calendar, returned, agent, tool>>

\* main.py checks GOOGLE_CALENDAR_ID, then uvicorn.run(app) serves.
MainConfig ==
    /\ proc = "main_config"
    /\ proc' = IF CalendarIdOk THEN "serving" ELSE "failed_calendar_id"
    /\ UNCHANGED <<messages, env, CALENDAR_SERVICE, running, nreq, req, calendar, returned, agent, tool>>

----------------------------------------------------------------------------
\* The calendar provider (external): free/busy query and event insert.

EmptyWindow(call) == call.start.wall - call.start.off >= call.end.wall - call.end.off

NoOutcome == [kind |-> "none", status |-> 0, applied |-> FALSE, busy |-> <<>>]

\* The provider's answers to a call.  It rejects an empty window with 400;
\* otherwise it answers, refuses (403), or the transport fails, for an
\* insert either before the event was stored or after (the response lost).
ProviderOutcomes(call) ==
    IF EmptyWindow(call)
    THEN {[NoOutcome EXCEPT !.kind = "HttpError", !.status = 400]}
    ELSE {[NoOutcome EXCEPT !.kind = "HttpError", !.status = 403],
          [NoOutcome EXCEPT !.kind = "Exception"]}
         \cup (IF call.kind = "insert"
               THEN {[NoOutcome EXCEPT !.kind = "ok", !.applied = TRUE],
                     [NoOutcome EXCEPT !.kind = "Exception", !.applied = TRUE]}
               ELSE {[NoOutcome EXCEPT !.kind = "ok"],
                     [NoOutcome EXCEPT !.kind = "ok",
                        !.busy = <<[start |-> Aware(call.start.wall - call.start.off, 0),
                                    end |-> Aware(call.end.wall - call.end.off, 0)]>>]})

\* the identifier the provider gives the next event
NextEventId == Len(calendar) + 1


----------------------------------------------------------------------------
\* calendar_utils.py: the gateway.

\* calendar_utils.py: CALENDAR_ID = os.getenv('GOOGLE_CALENDAR_ID', 'primary');
\* no function reads it: both take calendar_id from their caller
CALENDAR_ID == IF env.calendarId THEN "configured" ELSE "primary"

\* main.py passes GOOGLE_CALENDAR_ID = os.getenv('GOOGLE_CALENDAR_ID')
GOOGLE_CALENDAR_ID == IF env.calendarId THEN "configured" ELSE "None"

\* `if not CALENDAR_SERVICE` is false in the gateway's two functions
GatewayServiceReady == CALENDAR_SERVICE = "service"

\* Faulty variant: the conversions without the lookup of the zone
ConversionFaultTimesOnly(a) ==
    CASE FromIsoFormat(a.start) # "ok" -> FromIsoFormat(a.start)
      [] FromIsoFormat(a.end) # "ok" -> FromIsoFormat(a.end)
      [] OTHER -> "ok"

\* The exception the two conversions
\*   datetime.fromisoformat(start).astimezone(pytz.timezone(timezone))
\*   datetime.fromisoformat(end).astimezone(pytz.timezone(timezone))
\* raise, in evaluation order, or "ok".
ConversionFault(a) ==
    CASE FromIsoFormat(a.start) # "ok" -> FromIsoFormat(a.start)
      [] a.timezone \notin ValidZones -> "UnknownTimeZoneError"
      [] FromIsoFormat(a.end) # "ok" -> FromIsoFormat(a.end)
      [] OTHER -> "ok"

\* the body of freebusy().query / events().insert
ProviderCall(k, a) ==
    [kind |-> k,
     calendarId |-> GOOGLE_CALENDAR_ID,
     start |-> AsTimezone(a.start, a.timezone, env.localTz),
     end |-> AsTimezone(a.end, a.timezone, env.localTz),
     timeZone |-> a.timezone]

\* `if not CALENDAR_SERVICE: return {..., "error": "Calendar service not initialized..."}`
GatewayUninitialized == GatewayResult(<<>>, 0, 0, Err("Calendar service not initialized", 0, "none"))

\* `except Exception as e` around the conversions and the provider call
GatewayUnexpected(c) == GatewayResult(<<>>, 0, 0, Err("An unexpected error occurred", 0, c))

\* `except HttpError as error`
GatewayHttpError(s) == GatewayResult(<<>>, 0, 0, Err("Google Calendar API error", s, "HttpError"))

\* The gateway up to its first wait: its own guard, the conversions, and the
\* provider call it is about to make (kind "none": it returned `result`).
GatewayPrepare(pk, a) ==
    IF ~GatewayServiceReady
    THEN [call |-> NoCall, result |-> GatewayUninitialized]
    ELSE IF ConversionFault(a) # "ok"
    THEN [call |-> NoCall, result |-> GatewayUnexpected(ConversionFault(a))]
    ELSE [call |-> ProviderCall(pk, a), result |-> NoResult]

\* check_calendar_availability: the busy slots re-expressed in the zone asked for
FormatSlots(busy, tz) ==
    [i \in 1..Len(busy) |->
        [start |-> AsTimezone(busy[i].start, tz, env.localTz),
         end |-> AsTimezone(busy[i].end, tz, env.localTz)]]

\* check_calendar_availability, from the provider's answer on
CheckAvailabilityResult(a, out) ==
    CASE out.kind = "ok" -> GatewayResult(FormatSlots(out.busy, a.timezone), 0, 0, NoError)
      [] out.kind = "HttpError" -> GatewayHttpError(out.status)
      [] OTHER -> GatewayUnexpected("TransportError")

\* Faulty variant: the gateway makes up the identifier instead of taking the
\* created event's
CreateEventResultLocalId(out, id) ==
    CASE out.kind = "ok" -> GatewayResult(<<>>, 1, 1, NoError)
      [] out.kind = "HttpError" -> GatewayHttpError(out.status)
      [] OTHER -> GatewayUnexpected("TransportError")

\* create_calendar_event, from the provider's answer on: the identifier and
\* the link are those of the created event
CreateEventResult(out, id) ==
    CASE out.kind = "ok" -> GatewayResult(<<>>, id, id, NoError)
      [] out.kind = "HttpError" -> GatewayHttpError(out.status)
      [] OTHER -> GatewayUnexpected("TransportError")

----------------------------------------------------------------------------
\* main.py: the facade's handlers.  uvicorn.run(app) serves with one event
\* loop; each handler is `async def` and calls the gateway or the planner
\* without awaiting, so it holds the loop from its first line until its
\* response is written.

ServiceUnavailableDetail == Err("Google Calendar service not initialized", 0, "none")

\* Faulty variant: the handler returns the success body without looking at
\* result["error"]
FacadeAnswerUnchecked(k, res) ==
    IF k = "check"
    THEN [status |-> 200, body |-> [NoBody EXCEPT !.busy_slots = res.busy_slots]]
    ELSE [status |-> 200,
          body |-> [NoBody EXCEPT !.message = "Event created successfully!",
                                  !.event_id = res.event_id,
                                  !.html_link = res.html_link]]

\* the handler's answer to a gateway result
FacadeAnswer(k, res) ==
    IF res.error # NoError
    THEN [status |-> 500, body |-> [NoBody EXCEPT !.detail = res.error]]
    ELSE IF k = "check"
    THEN [status |-> 200, body |-> [NoBody EXCEPT !.busy_slots = res.busy_slots]]
    ELSE [status |-> 200,
          body |-> [NoBody EXCEPT !.message = "Event created successfully!",
                                  !.event_id = res.event_id,
                                  !.html_link = res.html_link]]

\* the request with its handler's answer
Answered(q, ans) ==
    [q EXCEPT !.st = "done", !.status = ans.status, !.body = ans.body,
              !.responses = q.responses + 1]

\* the request whose handler got `res` from the gateway
AnsweredFrom(q, res) ==
    Answered([q EXCEPT !.result = res, !.gateway = TRUE], FacadeAnswer(q.kind, res))

\* the bodies an HTTP client may send to the two calendar operations
ClientCalendarArgs ==
    {CalendarArgs(w[1], w[2], tz) : w \in ClientWindows, tz \in Zones}

\* the body of a pending request: a tool's is what the tool posted
BodiesOf(r, clientBodies) == IF req[r].byTool THEN {req[r].args} ELSE clientBodies

\* a client's request reaches the listening socket
ClientRequest(k) ==
    /\ proc = "serving"
    /\ nreq < MaxReq
    /\ nreq' = nreq + 1
    /\ req' = [req EXCEPT ![nreq + 1] = NewRequest(k, FALSE, 0, NoArgs)]
    /\ UNCHANGED <<messages, env, proc, CALENDAR_SERVICE, running, calendar, returned, agent, tool>>

\* The handler of a calendar request up to its first wait: the 503 guard,
\* the gateway's guard and conversions, and the provider call going out.
StartCalendarHandler(r, k, pk) ==
    /\ proc = "serving"
    /\ running = 0
    /\ req[r].st = "pending"
    /\ req[r].kind = k
    /\ running' = r
    /\ \E a \in BodiesOf(r, ClientCalendarArgs) :
        LET q == [req[r] EXCEPT !.args = a]
            g == GatewayPrepare(pk, a)
        IN  IF ~ServiceInitialized
            THEN req' = [req EXCEPT ![r] =
                    Answered(q, [status |-> 503,
                                 body |-> [NoBody EXCEPT !.detail = ServiceUnavailableDetail]])]
            ELSE IF g.call = NoCall
            THEN req' = [req EXCEPT ![r] = AnsweredFrom(q, g.result)]
            ELSE req' = [req EXCEPT ![r] =
                    [q EXCEPT !.st = "provider", !.gateway = TRUE, !.pcall = g.call,
                              !.pcalls = q.pcalls + 1]]
    /\ UNCHANGED <<messages, env, proc, CALENDAR_SERVICE, nreq, calendar, returned, agent, tool>>

\* POST /check-availability: get_availability
GetAvailability(r) == StartCalendarHandler(r, "check", "query")

\* POST /create-event: create_event
CreateEvent(r) == StartCalendarHandler(r, "create", "insert")

\* get_availability from the provider's answer to its return
AvailabilityReturn(r) ==
    /\ req[r].st = "provider"
    /\ req[r].kind = "check"
    /\ \E out \in ProviderOutcomes(req[r].pcall) :
        req' = [req EXCEPT ![r] = AnsweredFrom(req[r], CheckAvailabilityResult(req[r].args, out))]
    /\ UNCHANGED <<messages, env, proc, CALENDAR_SERVICE, running, nreq, calendar, returned, agent, tool>>

\* Faulty variant: create_calendar_event tries the insert again when it failed
CreateEventReturnRetrying(r) ==
    /\ req[r].st = "provider"
    /\ req[r].kind = "create"
    /\ \E out \in ProviderOutcomes(req[r].pcall) :
        LET res == CreateEventResult(out, NextEventId)
        IN  /\ req' = IF out.kind = "ok" \/ req[r].pcalls > 1
                      THEN [req EXCEPT ![r] = AnsweredFrom(req[r], res)]
                      ELSE [req EXCEPT ![r].pcalls = @ + 1]
            /\ calendar' = IF out.applied
                           THEN Append(calendar, [id |-> NextEventId, by |-> r, body |-> req[r].pcall])
                           ELSE calendar
            /\ returned' = IF res.error = NoError THEN Append(returned, res.event_id) ELSE returned
    /\ UNCHANGED <<messages, env, proc, CALENDAR_SERVICE, running, nreq, agent, tool>>

\* create_event from the provider's answer to its return
CreateEventReturn(r) ==
    /\ req[r].st = "provider"
    /\ req[r].kind = "create"
    /\ \E out \in ProviderOutcomes(req[r].pcall) :
        LET res == CreateEventResult(out, NextEventId)
        IN  /\ req' = [req EXCEPT ![r] = AnsweredFrom(req[r], res)]
            /\ calendar' = IF out.applied
                           THEN Append(calendar, [id |-> NextEventId, by |-> r, body |-> req[r].pcall])
                           ELSE calendar
            /\ returned' = IF res.error = NoError THEN Append(returned, res.event_id) ELSE returned
    /\ UNCHANGED <<messages, env, proc, CALENDAR_SERVICE, running, nreq, agent, tool>>

\* The response of a finished handler is written: the event loop is free
\* again, and a tool that waits for the response has it.
SendResponse(r) ==
    /\ req[r].st = "done"
    /\ running = r
    /\ running' = 0
    /\ req' = [req EXCEPT ![r] = Closed]
    /\ agent' = [agent EXCEPT ![r] = IdleAgent]
    /\ LET h == req[r].host
           mine == [tool EXCEPT ![r] = IdleTool]
       IN  tool' = IF req[r].byTool /\ tool[h].st = "http" /\ tool[h].wait = r
                   THEN [mine EXCEPT ![h] =
                            [@ EXCEPT !.st = "responded",
                                      !.resp = [status |-> req[r].status, body |-> req[r].body]]]
                   ELSE mine
    /\ UNCHANGED <<messages, env, proc, CALENDAR_SERVICE, nreq, calendar, returned>>

----------------------------------------------------------------------------
\* tools.py: the two tool functions.

ToolNames == {"check", "create"}

\* Faulty variant: the inner try without its second line
ToolValidationStartOnly(s, e) == FromIsoFormat(s)

\* the inner try: datetime.fromisoformat(start_time_str), then
\* datetime.fromisoformat(end_time_str); the exception raised, or "ok"
ToolValidation(s, e) ==
    IF FromIsoFormat(s) # "ok" THEN FromIsoFormat(s) ELSE FromIsoFormat(e)

\* requests.exceptions.RequestException and its subclasses
RequestExceptions == {"ConnectionError", "HTTPError", "JSONDecodeError"}

FailedText(name) ==
    IF name = "check" THEN "Failed to check availability" ELSE "Failed to create event"

\* Faulty variant: the function without its `except Exception`
ToolCatchRequestErrorsOnly(name, exc, status) ==
    IF exc \in RequestExceptions
    THEN ErrorResult(Err(FailedText(name), status, exc))
    ELSE [shape |-> "raised", error |-> NoError, payload |-> NoBody]

\* the two outer handlers: `except requests.exceptions.RequestException`,
\* then `except Exception`
ToolCatch(name, exc, status) ==
    IF exc \in RequestExceptions
    THEN ErrorResult(Err(FailedText(name), status, exc))
    ELSE ErrorResult(Err("An unexpected error occurred", 0, exc))

\* A tool function up to its first wait: `post` says that requests.post went
\* out with `args`; otherwise the function returned `result`.  A server
\* that is not listening refuses the connection.
ToolStart(name, s, e, tz) ==
    LET v == ToolValidation(s, e)
    IN  IF v = "ValueError"
        THEN [post |-> FALSE, args |-> NoArgs,
              result |-> ErrorResult(Err("Invalid time format", 0, "ValueError"))]
        ELSE IF v # "ok"
        THEN [post |-> FALSE, args |-> NoArgs, result |-> ToolCatch(name, v, 0)]
        ELSE IF proc # "serving"
        THEN [post |-> FALSE, args |-> NoArgs,
              result |-> ToolCatch(name, "ConnectionError", 0)]
        ELSE [post |-> TRUE, args |-> CalendarArgs(s, e, tz), result |-> NoToolResult]

\* response.raise_for_status(); return response.json()
ToolResponse(name, resp) ==
    IF resp.status >= 400
    THEN ToolCatch(name, "HTTPError", resp.status)
    ELSE [shape |-> "payload", error |-> NoError, payload |-> resp.body]

\* both arguments are ISO timestamps
Parseable(s, e) == s.kind \in {"naive", "aware"} /\ e.kind \in {"naive", "aware"}

\* the tool call of a host, begun with arguments (s, e) as its n-th
ToolBegun(name, n, s, e, t) ==
    [IdleTool EXCEPT !.st = IF t.post THEN "http" ELSE "returned",
                     !.name = name,
                     !.calls = n,
                     !.parseable = Parseable(s, e),
                     !.posts = IF t.post THEN 1 ELSE 0,
                     !.wait = IF t.post THEN nreq + 1 ELSE 0,
                     !.result = t.result]

\* the requests once the tool call of host h began
RequestsAfter(h, name, t) ==
    IF t.post
    THEN [req EXCEPT ![nreq + 1] = NewRequest(name, TRUE, h, t.args)]
    ELSE req

\* the model's cap on requests lets the call go out
CanPost(t) == t.post => nreq < MaxReq

----------------------------------------------------------------------------
\* agent.py: the planner, run by the /chat handler of main.py.

OracleReply == "oracle reply"
StoppedReply == "Agent stopped due to iteration limit or time limit."
ApologyReply == "I apologize, but I encountered an error"

\* Faulty variant: an executor without an iteration limit (max_iterations=None)
ShouldContinueUnlimited(iterations) == TRUE

\* AgentExecutor's loop guard: `while self._should_continue(iterations, ...)`
ShouldContinue(iterations) == iterations < MaxIterations

\* The planner once a tool call returned `result`: an exception out of the
\* tool would reach invoke_agent's `except Exception`; otherwise the
\* iteration is counted and the loop guard decides between another oracle
\* turn and the stopped response.
StepAfterTool(a, result) ==
    IF result.shape = "raised"
    THEN [a EXCEPT !.st = "returned", !.observed = result.shape, !.reply = ApologyReply]
    ELSE IF ShouldContinue(a.iter + 1)
    THEN [a EXCEPT !.st = "oracle", !.observed = result.shape, !.iter = a.iter + 1,
                   !.oracleCalls = a.oracleCalls + 1]
    ELSE [a EXCEPT !.st = "returned", !.observed = result.shape, !.iter = a.iter + 1,
                   !.reply = StoppedReply]

\* chat_with_agent returns {"response": agent_response}
ChatAnswered(q, reply) ==
    Answered(q, [status |-> 200, body |-> [NoBody EXCEPT !.response = reply]])

\* chat_with_agent's `except Exception`: HTTPException(500, "Error processing message: ...")
ChatFailed(q, exc) ==
    Answered(q, [status |-> 500,
                 body |-> [NoBody EXCEPT !.detail = Err("Error processing message", 0, exc)]])

\* A tool function returns `result` to its caller.  The script keeps it; a
\* planner takes it as its observation and steps, and when invoke_agent
\* returns, so does the /chat handler.
Resume(h, returnedTool, requests) ==
    IF h = Script
    THEN /\ tool' = [tool EXCEPT ![h] = returnedTool]
         /\ req' = requests
         /\ UNCHANGED agent
    ELSE LET a == StepAfterTool(agent[h], returnedTool.result)
         IN  /\ tool' = [tool EXCEPT ![h] = IdleTool]
             /\ agent' = [agent EXCEPT ![h] = a]
             /\ req' = IF a.st = "returned"
                       THEN [requests EXCEPT ![h] = ChatAnswered(requests[h], a.reply)]
                       ELSE requests

\* Faulty variant: invoke_agent appends the user's message to the list it
\* was given
ChatWithAgentAppending(r) ==
    /\ proc = "serving"
    /\ running = 0
    /\ req[r].st = "pending"
    /\ req[r].kind = "chat"
    /\ running' = r
    /\ \E m \in Messages, h \in Histories :
        LET q == [req[r] EXCEPT !.args =
                    ChatArgs(m, Append(h, [role |-> "user", content |-> m]))]
            conv == ConvertHistory(h)
        IN  IF conv.ok
            THEN /\ agent' = [agent EXCEPT ![r] =
                        [IdleAgent EXCEPT !.st = "oracle", !.input = m, !.lc = conv.lc,
                                          !.oracleCalls = 1]]
                 /\ req' = [req EXCEPT ![r] = [q EXCEPT !.st = "agent"]]
            ELSE /\ agent' = [agent EXCEPT ![r] = [IdleAgent EXCEPT !.st = "raised"]]
                 /\ req' = [req EXCEPT ![r] = ChatFailed(q, "KeyError")]
    /\ UNCHANGED <<messages, env, proc, CALENDAR_SERVICE, nreq, calendar, returned, tool>>

\* POST /chat: chat_with_agent up to the first oracle call.  invoke_agent
\* converts the history before its try block, so a KeyError there leaves
\* invoke_agent and is answered by chat_with_agent's own handler.
ChatWithAgent(r) ==
    /\ proc = "serving"
    /\ running = 0
    /\ req[r].st = "pending"
    /\ req[r].kind = "chat"
    /\ running' = r
    /\ \E m \in Messages, h \in Histories :
        LET q == [req[r] EXCEPT !.args = ChatArgs(m, h)]
            conv == ConvertHistory(h)
        IN  IF conv.ok
            THEN /\ agent' = [agent EXCEPT ![r] =
                        [IdleAgent EXCEPT !.st = "oracle", !.input = m, !.lc = conv.lc,
                                          !.oracleCalls = 1]]
                 /\ req' = [req EXCEPT ![r] = [q EXCEPT !.st = "agent"]]
            ELSE /\ agent' = [agent EXCEPT ![r] = [IdleAgent EXCEPT !.st = "raised"]]
                 /\ req' = [req EXCEPT ![r] = ChatFailed(q, "KeyError")]
    /\ UNCHANGED <<messages, env, proc, CALENDAR_SERVICE, nreq, calendar, returned, tool>>

\* the oracle answers with a final reply: invoke_agent returns its output
OracleFinish(r) ==
    /\ agent[r].st = "oracle"
    /\ agent' = [agent EXCEPT ![r] = [@ EXCEPT !.st = "returned", !.reply = OracleReply]]
    /\ req' = [req EXCEPT ![r] = ChatAnswered(req[r], OracleReply)]
    /\ UNCHANGED <<messages, env, proc, CALENDAR_SERVICE, running, nreq, calendar, returned, tool>>

\* the oracle call fails: `except Exception` returns the apology
OracleFault(r) ==
    /\ agent[r].st = "oracle"
    /\ agent' = [agent EXCEPT ![r] = [@ EXCEPT !.st = "returned", !.reply = ApologyReply]]
    /\ req' = [req EXCEPT ![r] = ChatAnswered(req[r], ApologyReply)]
    /\ UNCHANGED <<messages, env, proc, CALENDAR_SERVICE, running, nreq, calendar, returned, tool>>

\* the oracle asks for a tool: the tool function runs to its return or to
\* its HTTP request
OracleToolRequest(r) ==
    /\ agent[r].st = "oracle"
    /\ \E name \in ToolNames, w \in ToolWindows, tz \in Zones :
        LET t == ToolStart(name, w[1], w[2], tz)
            b == ToolBegun(name, agent[r].iter + 1, w[1], w[2], t)
        IN  /\ CanPost(t)
            /\ nreq' = IF t.post THEN nreq + 1 ELSE nreq
            /\ IF t.post
               THEN /\ tool' = [tool EXCEPT ![r] = b]
                    /\ agent' = [agent EXCEPT ![r] = [@ EXCEPT !.st = "tool"]]
                    /\ req' = RequestsAfter(r, name, t)
               ELSE Resume(r, b, req)
    /\ UNCHANGED <<messages, env, proc, CALENDAR_SERVICE, running, calendar, returned>>

\* tools.py run as a script calls the availability tool, then the creation
\* tool.
ScriptCallTool ==
    /\ tool[Script].st \in {"idle", "returned"}
    /\ tool[Script].calls < 2
    /\ \E w \in ToolWindows, tz \in Zones :
        LET name == IF tool[Script].calls = 0 THEN "check" ELSE "create"
            t == ToolStart(name, w[1], w[2], tz)
        IN  /\ CanPost(t)
            /\ tool' = [tool EXCEPT ![Script] =
                    ToolBegun(name, tool[Script].calls + 1, w[1], w[2], t)]
            /\ req' = RequestsAfter(Script, name, t)
            /\ nreq' = IF t.post THEN nreq + 1 ELSE nreq
    /\ UNCHANGED <<messages, env, proc, CALENDAR_SERVICE, running, calendar, returned, agent>>

\* a tool call has the facade's response and returns
ToolReturn(h) ==
    /\ tool[h].st = "responded"
    /\ Resume(h, [tool[h] EXCEPT !.st = "returned", !.wait = 0,
                                 !.result = ToolResponse(tool[h].name, tool[h].resp)],
              req)
    /\ UNCHANGED <<messages, env, proc, CALENDAR_SERVICE, running, nreq, calendar, returned>>

\* what the network can do to a call in flight instead of a response
NetworkFaults == {"ConnectionError", "JSONDecodeError"}

\* a tool call fails in the network and returns
ToolFault(h) ==
    /\ tool[h].st = "http"
    /\ \E f \in NetworkFaults :
        Resume(h, [tool[h] EXCEPT !.st = "returned", !.wait = 0,
                                  !.result = ToolCatch(tool[h].name, f, 0)],
               req)
    /\ UNCHANGED <<messages, env, proc, CALENDAR_SERVICE, running, nreq, calendar, returned>>

----------------------------------------------------------------------------
\* streamlit_app.py: the chat shell, a process of its own.

\* st.chat_input: the user turn is appended, then an assistant turn that
\* quotes the prompt; no request is sent to the facade.
ChatInput ==
    /\ Len(messages) < 1 + 2 * MaxTurns
    /\ \E prompt \in Messages :
        messages' = messages \o <<Turn("user", prompt, "none"),
                                  Turn("assistant", "You said", prompt)>>
    /\ UNCHANGED <<env, proc, CALENDAR_SERVICE, running, nreq, req, calendar, returned, agent, tool>>

\* the "Clear Chat" button
ClearChat ==
    /\ Len(messages) > 1
    /\ messages' = <<Greeting>>
    /\ UNCHANGED <<env, proc, CALENDAR_SERVICE, running, nreq, req, calendar, returned, agent, tool>>

----------------------------------------------------------------------------

\* The server starts.
Startup ==
    \/ ImportCalendarUtils
    \/ InitCalendarService
    \/ ImportAgent
    \/ MainConfig

\* The server handles calendar requests.
CalendarHandlers ==
    \/ \E r \in Req : GetAvailability(r)
    \/ \E r \in Req : CreateEvent(r)
    \/ \E r \in Req : AvailabilityReturn(r)
    \/ \E r \in Req : CreateEventReturn(r)
    \/ \E r \in Req : SendResponse(r)

\* The server handles chat requests.
ChatHandlers ==
    \/ \E r \in Req : ChatWithAgent(r)
    \/ \E r \in Req : OracleFinish(r)
    \/ \E r \in Req : OracleFault(r)
    \/ \E r \in Req : OracleToolRequest(r)
    \/ \E r \in Req : ToolFault(r)

\* The whole system: the server, HTTP clients of its three operations, and
\* tools.py run as a script beside it.
Next ==
    \/ Startup
    \/ CalendarHandlers
    \/ ChatHandlers
    \/ \E k \in {"check", "create", "chat"} : ClientRequest(k)
    \/ ScriptCallTool
    \/ \E h \in Hosts : ToolReturn(h)
    \/ ToolFault(Script)
    \/ ChatInput
    \/ ClearChat

Spec == Init /\ [][Next]_vars

\* The server under calendar clients and the tools script (no chat turn).
NextFacade ==
    \/ Startup
    \/ CalendarHandlers
    \/ \E k \in {"check", "create"} : ClientRequest(k)
    \/ ScriptCallTool
    \/ ToolReturn(Script)
    \/ ToolFault(Script)

SpecFacade == Init /\ [][NextFacade]_vars

\* The server under HTTP clients of its three operations (no script).
NextChat ==
    \/ Startup
    \/ CalendarHandlers
    \/ ChatHandlers
    \/ \E k \in {"check", "create", "chat"} : ClientRequest(k)

SpecChat == Init /\ [][NextChat]_vars

\* the shell next to a facade that serves /chat to its clients
NextShell ==
    \/ Startup
    \/ ChatHandlers
    \/ \E r \in Req : SendResponse(r)
    \/ ClientRequest("chat")
    \/ ChatInput
    \/ ClearChat

SpecShell == Init /\ [][NextShell]_vars

----------------------------------------------------------------------------
\* The claims.

Served(r) == req[r].st = "done"

\* C1: every chat turn ends with a reply: invoke_agent returns a string
\* whatever the history holds and whatever the oracle or a tool does, so
\* POST /chat is answered 200 {response: text}, never with an HTTP fault.
C1_ChatTurnAlwaysReplies ==
    \A r \in Req :
        req[r].kind = "chat" /\ Served(r) =>
            /\ agent[r].st = "returned"
            /\ req[r].status = 200
            /\ req[r].body.response = agent[r].reply

\* C2: the tool loop ends within MaxIterations iterations even when every
\* oracle turn asks for a tool: there are never more than MaxIterations
\* oracle turns, and at the limit invoke_agent returns the stopped reply.
C2_ToolLoopTerminates ==
    \A r \in Req :
        /\ agent[r].iter <= MaxIterations
        /\ agent[r].oracleCalls <= MaxIterations
        /\ agent[r].iter = MaxIterations =>
            /\ agent[r].st = "returned"
            /\ agent[r].reply = StoppedReply
            /\ Served(r) /\ req[r].status = 200 /\ req[r].body.response = StoppedReply

C2_Witness ==
    \E r \in Req :
        /\ agent[r].iter = MaxIterations
        /\ agent[r].oracleCalls = MaxIterations
        /\ Served(r) /\ req[r].body.response = StoppedReply

\* C3: whatever their arguments and whatever the HTTP call does, the two
\* tool functions return the facade's payload or a mapping with an error
\* text; no exception leaves them, so none reaches a planner either.
C3_ToolsReturnPayloadOrError ==
    /\ \A h \in Hosts :
        tool[h].st = "returned" =>
            \/ tool[h].result.shape = "payload" /\ tool[h].result.error = NoError
            \/ tool[h].result.shape = "error" /\ tool[h].result.error # NoError
    /\ \A r \in Req : agent[r].observed \in {"none", "payload", "error"}

\* a creation tool call answered 503 by the facade returned an error text
C3_Witness ==
    /\ tool[Script].st = "returned"
    /\ tool[Script].name = "create"
    /\ tool[Script].result.shape = "error"
    /\ tool[Script].result.error.status = 503

\* a tool call with an argument that is no string returned an error text
C3_WitnessTypeError ==
    /\ tool[Script].st = "returned"
    /\ tool[Script].result.error.cause = "TypeError"

\* a tool call returned the facade's payload
C3_WitnessPayload ==
    /\ tool[Script].st = "returned"
    /\ tool[Script].result.shape = "payload"
    /\ tool[Script].result.payload.event_id > 0

\* C4: a tool call whose start or end is no ISO timestamp returns an error
\* and posts nothing: every request a tool posted carries two parseable
\* timestamps, so no provider call is ever made for an unparseable one.
C4_ToolValidatesBeforePosting ==
    /\ \A h \in Hosts :
        tool[h].st # "idle" /\ ~tool[h].parseable =>
            /\ tool[h].st = "returned"
            /\ tool[h].posts = 0
            /\ tool[h].result.shape = "error"
    /\ \A r \in Req :
        req[r].byTool /\ req[r].st # "closed" =>
            Parseable(req[r].args.start, req[r].args.end)

C4_Witness ==
    /\ tool[Script].st = "returned"
    /\ tool[Script].name = "create"
    /\ ~tool[Script].parseable
    /\ tool[Script].result.error.type = "Invalid time format"
    /\ \A r \in Req : ~req[r].byTool
    /\ calendar = <<>>


\* the server begins to run the handler of request r
HandlerStart(r) == GetAvailability(r) \/ CreateEvent(r) \/ ChatWithAgent(r)

\* a handler that waits for the provider, the oracle or a tool
Blocked(r) == req[r].st \in {"provider", "agent"}

\* C5: requests run in independent execution contexts: while one request is
\* blocked on the provider, the oracle or a tool, the handler of any other
\* request that has arrived can start.
C5_BlockedRequestStallsNoOther ==
    \A r \in Req :
        proc = "serving" /\ req[r].st = "pending" /\ (\E b \in Req : Blocked(b)) =>
            ENABLED HandlerStart(r)

\* C6: nothing is retried: a request makes at most one provider call and is
\* answered once, a tool call posts at most once, no request inserts two
\* events, and a failed provider call is reported without a second one.
C6_NothingIsRetried ==
    /\ \A r \in Req :
        /\ req[r].pcalls <= 1
        /\ req[r].responses <= 1
        /\ Served(r) => req[r].responses = 1
    /\ \A h \in Hosts : tool[h].posts <= 1
    /\ \A i, j \in 1..Len(calendar) : calendar[i].by = calendar[j].by => i = j

\* a creation whose insert failed was answered 500 after that one insert
C6_Witness ==
    \E r \in Req :
        /\ req[r].kind = "create" /\ Served(r)
        /\ req[r].status = 500
        /\ req[r].pcalls = 1
        /\ calendar = <<>>

\* C7: createEvent does not deduplicate: every successful creation made its
\* own provider insert and returns the identifier the provider gave that
\* event, so creations with the same arguments return distinct identifiers.
C7_EachCreationItsOwnEvent ==
    /\ \A i, j \in 1..Len(returned) : returned[i] = returned[j] => i = j
    /\ \A i \in 1..Len(returned) : \E k \in 1..Len(calendar) : calendar[k].id = returned[i]
    /\ \A r \in Req :
        req[r].kind = "create" /\ Served(r) /\ req[r].status = 200 =>
            \E k \in 1..Len(calendar) :
                /\ calendar[k].by = r
                /\ calendar[k].id = req[r].body.event_id
                /\ calendar[k].body = req[r].pcall

\* two creations with the same arguments succeeded
C7_Witness ==
    /\ Len(returned) = 2
    /\ Len(calendar) = 2
    /\ calendar[1].body = calendar[2].body
    /\ calendar[1].by # calendar[2].by

\* C8: while the gateway's service is not initialised, an availability or
\* creation request is answered 503 and runs neither the gateway function
\* nor a provider call.
C8_UninitialisedGatewayIs503 ==
    \A r \in Req :
        CALENDAR_SERVICE # "service" /\ req[r].kind \in {"check", "create"} =>
            /\ req[r].st \in {"pending", "done"}
            /\ ~req[r].gateway
            /\ req[r].pcalls = 0
            /\ Served(r) => req[r].status = 503 /\ req[r].body.detail = ServiceUnavailableDetail

C8_Witness ==
    \E r \in Req :
        /\ CALENDAR_SERVICE # "service"
        /\ req[r].kind = "create" /\ Served(r)
        /\ req[r].status = 503
        /\ calendar = <<>>

\* C9: a failure of the gateway's initialisation, of whatever kind, does
\* not end the process: it goes on with the service uninitialised.
C9_InitFailureIsNotFatal == proc # "failed_service_init"

C10_WitnessApiKey == proc = "failed_api_key" /\ ~env.apiKey


\* C11: without a configured calendar identifier the process still starts
\* (it does not fail on the identifier), and every provider call of an
\* availability or creation request names the calendar "primary".
C11_UnsetCalendarIdMeansPrimary ==
    ~env.calendarId =>
        /\ proc # "failed_calendar_id"
        /\ \A r \in Req : req[r].pcall # NoCall => req[r].pcall.calendarId = "primary"


\* C12: a naive start or end is sent to the provider with its wall-clock
\* fields unchanged and the offset of the requested zone attached, whatever
\* the zone of the server's clock.
C12_NaiveTimesReadInRequestedZone ==
    \A r \in Req :
        req[r].pcall # NoCall =>
            /\ req[r].args.start.kind = "naive" =>
                req[r].pcall.start = Aware(req[r].args.start.wall, ZoneOffset(req[r].args.timezone))
            /\ req[r].args.end.kind = "naive" =>
                req[r].pcall.end = Aware(req[r].args.end.wall, ZoneOffset(req[r].args.timezone))


\* a calendar request whose handler has read its body
BodyRead(r) == req[r].kind \in {"check", "create"} /\ req[r].st \in {"provider", "done"}

\* the body has a start or end that is no timestamp, or names no zone
Malformed(a) == a.start.kind = "bad" \/ a.end.kind = "bad" \/ a.timezone \notin ValidZones

\* C13: for a start or end that cannot be parsed, or a zone that is no IANA
\* name, the gateway returns an error result (no slots, no identifier, no
\* link, an error text) without a provider call, and the calendar holds no
\* event of that request.
C13_MalformedInputIsRefused ==
    \A r \in Req :
        BodyRead(r) /\ Malformed(req[r].args) =>
            /\ req[r].st = "done"
            /\ req[r].pcalls = 0 /\ req[r].pcall = NoCall
            /\ \A k \in 1..Len(calendar) : calendar[k].by # r
            /\ req[r].gateway =>
                /\ req[r].result.error # NoError
                /\ req[r].result.busy_slots = <<>>
                /\ req[r].result.event_id = 0 /\ req[r].result.html_link = 0

\* a creation that names an unknown zone got the gateway's error result
C13_Witness ==
    \E r \in Req :
        /\ req[r].kind = "create" /\ req[r].st = "done" /\ req[r].gateway
        /\ req[r].args.timezone \notin ValidZones
        /\ req[r].args.start.kind = "naive" /\ req[r].args.end.kind = "naive"
        /\ req[r].result.error.cause = "UnknownTimeZoneError"
        /\ req[r].pcalls = 0 /\ calendar = <<>>

\* an availability check with an unparseable end got the gateway's error result
C13_WitnessBadTime ==
    \E r \in Req :
        /\ req[r].kind = "check" /\ req[r].st = "done" /\ req[r].gateway
        /\ req[r].args.end.kind = "bad"
        /\ req[r].result.error.cause = "ValueError"
        /\ req[r].pcalls = 0


\* the provider refused the window of this call as empty (start >= end)
ProviderRejection == Err("Google Calendar API error", 400, "HttpError")

\* C14: a window with start >= end is passed to the provider, and the
\* provider's rejection reaches the caller with its status and message: the
\* facade answers an error whose detail is the rejection, and a tool that
\* got that answer returns an error naming the provider's status; neither
\* reports success.
C14_ProviderRejectionSurfaced ==
    /\ \A r \in Req :
        BodyRead(r) /\ req[r].st = "done" /\ req[r].pcalls = 1 /\ EmptyWindow(req[r].pcall) =>
            /\ req[r].status = 500
            /\ req[r].body.detail = ProviderRejection
    /\ \A h \in Hosts :
        tool[h].st = "returned" /\ tool[h].resp.body.detail = ProviderRejection =>
            /\ tool[h].result.shape = "error"
            /\ tool[h].result.error.status = ProviderRejection.status

\* the facade's half of C14 alone: it holds
C14_FacadeSurfacesRejection ==
    \A r \in Req :
        BodyRead(r) /\ req[r].st = "done" /\ req[r].pcalls = 1 /\ EmptyWindow(req[r].pcall) =>
            /\ req[r].status = 500
            /\ req[r].body.detail = ProviderRejection


\* the texts POST /chat answers with
ChatReplies == {OracleReply, StoppedReply, ApologyReply}

\* C15: every input typed into the shell is sent to the facade's chat
\* operation, and the assistant turn the shell appends for it is the reply
\* of that operation.
C15_ShellForwardsToChat ==
    /\ Len(messages) > 1 => nreq > 0
    /\ \A i \in 2..Len(messages) :
        messages[i].role = "assistant" => messages[i].content.text \in ChatReplies


\* C16: the server keeps no conversation: the history a request came with
\* is left as it was sent, the oracle context of a chat request (input and
\* converted history) is made of that request's own body alone, and nothing
\* of a conversation outlives its request.
C16_NoConversationState ==
    \A r \in Req :
        /\ req[r].kind = "chat" /\ req[r].st \in {"agent", "done"} =>
            /\ req[r].args.chat_history \in Histories
            /\ agent[r].st # "raised" =>
                /\ agent[r].input = req[r].args.user_message
                /\ agent[r].lc = ConvertHistory(req[r].args.chat_history).lc
        /\ req[r].st \in {"none", "pending", "closed"} => agent[r] = IdleAgent
        /\ req[r].kind # "chat" => agent[r] = IdleAgent

\* a second request's chat turn ran on its own two-turn history after the
\* first request was finished
C16_Witness ==
    /\ req[1].st = "closed"
    /\ req[2].kind = "chat" /\ req[2].st = "done" /\ req[2].status = 200
    /\ Len(req[2].args.chat_history) = 3
    /\ Len(agent[2].lc) = 2
    /\ agent[2].input = "m2"


\* C17: once the gateway has returned, the facade answers 500 with the
\* gateway's error as detail exactly when that error is not null, and the
\* success body (the slots, or message, identifier and link) exactly when it
\* is null.
C17_FacadeReexpressesGatewayResult ==
    \A r \in Req :
        BodyRead(r) /\ req[r].st = "done" /\ req[r].gateway =>
            IF req[r].result.error # NoError
            THEN /\ req[r].status = 500
                 /\ req[r].body = [NoBody EXCEPT !.detail = req[r].result.error]
            ELSE /\ req[r].status = 200
                 /\ req[r].body.detail = NoError
                 /\ req[r].kind = "check" =>
                        req[r].body = [NoBody EXCEPT !.busy_slots = req[r].result.busy_slots]
                 /\ req[r].kind = "create" =>
                        /\ req[r].body.message = "Event created successfully!"
                        /\ req[r].body.event_id = req[r].result.event_id
                        /\ req[r].body.html_link = req[r].result.html_link
                        /\ req[r].body.event_id > 0

\* an availability check the provider refused with 403 was answered 500
\* with the gateway's error text
C17_Witness ==
    \E r \in Req :
        /\ req[r].kind = "check" /\ req[r].st = "done" /\ req[r].gateway
        /\ req[r].result.error = Err("Google Calendar API error", 403, "HttpError")
        /\ req[r].status = 500
        /\ req[r].body.detail = req[r].result.error

\* an availability check was answered 200 with one busy slot
C17_WitnessSuccess ==
    \E r \in Req :
        /\ req[r].kind = "check" /\ req[r].st = "done" /\ req[r].gateway
        /\ req[r].status = 200
        /\ Len(req[r].body.busy_slots) = 1


\* C18: when a planner's tool has posted its request to the facade and the
\* /chat handler waits for the answer, the nested request is served: its
\* handler can start, so the two never wait for each other.
C18_NestedRequestIsServed ==
    \A r \in Req :
        req[r].kind = "chat" /\ agent[r].st = "tool" /\ tool[r].st = "http" =>
            (req[tool[r].wait].st = "pending" => ENABLED HandlerStart(tool[r].wait))

====
